---------------------------- MODULE Spec2Model ----------------------------
(***************************************************************************)
(* Model of the vehicle control and sensor publishing components:          *)
(*   src/src/components/Car/Car.tsx            (Car, useKeyPress)          *)
(*   src/src/components/world/car/Sensors.tsx  (Sensors)                   *)
(*                                                                         *)
(* Units.  maxSteerVal = 0.5 is kept in tenths (5); chassis pose           *)
(* components are kept in thousandths (5 -> 5000, 0.5 -> 500,              *)
(* -PI/4 -> -785).  Time is counted in abstract clock units.               *)
(*                                                                         *)
(* React state updates issued by one callback are committed together       *)
(* (the last write to a field wins) and the effects of the commit run      *)
(* before the next callback; a callback reads the values of the latest     *)
(* commit.                                                                 *)
(***************************************************************************)
EXTENDS Integers, Sequences, FiniteSets

VARIABLES
    \* ---- Car.tsx ----
    controllable,    \* prop `controllable` (Car.tsx:43)
    carPhase,        \* "rendered" | "mounted" | "unmounted"
    keyPressed,      \* the six useKeyPress states (Car.tsx:116-121, 237)
    listening,       \* window listeners registered by useKeyPress (Car.tsx:255-256)
    steeringValue,   \* useState (Car.tsx:123)
    engineForce,     \* useState (Car.tsx:124)
    brakeForce,      \* useState (Car.tsx:125)
    effectDeps,      \* dependency values of the last run of the three push effects
    chassisBound,    \* chassis.current is set (Car.tsx:50, 190)
    chassisPose,     \* pose held by the physics collaborator for the chassis
    pushes,          \* api calls made by the latest step
    writes,          \* number of setter calls per actuation field in the latest tick
    tickResult,      \* "none" | "ok" | "threw": how the latest frame callback ended
    lastOp,          \* label of the latest operation
    renderGen,       \* render whose closures are current: "first" | "later"
    registered,      \* renders whose key handlers are listeners of the window
    heldKeys,        \* keys physically down (tracked by KeyStroke only)
    \* ---- Sensors.tsx ----
    sensorsNum,      \* prop `sensorsNum` (Sensors.tsx:18)
    construction,    \* how the first render ended: "ok" or the error thrown
    sensMounted,     \* the Sensors component is mounted
    sensorDistances, \* sensorDistances.current (Sensors.tsx:20)
    throttles,       \* state of the throttled function created by each render
    cur,             \* the render whose onRay the rays call (latest render)
    now,             \* the clock read by the throttle
    rayPos,          \* rays that have reported in the sampling pass in progress
    lastCallAt,      \* time of the latest onSensors call
    prevCallAt,      \* time of the onSensors call before it
    lastCallVector,  \* the vector the latest onSensors call received
    lastCallPartial, \* the latest call came before all rays of its pass reported
    lastCallAfterTeardown, \* the latest call came after the unmount
    burst,           \* bookkeeping of the burst of publish requests in progress
    scene,           \* scene.children: what each top-level object is
    obstacles,       \* obstacles.current, as handed to the rays (lines 40, 62)
    sensOp           \* label of the latest Sensors operation

carVars == <<controllable, carPhase, keyPressed, listening, steeringValue,
             engineForce, brakeForce, effectDeps, chassisBound, chassisPose,
             pushes, writes, tickResult, lastOp, renderGen, registered,
             heldKeys>>

sensVars == <<construction, sensorsNum, sensMounted, sensorDistances, throttles, cur, now,
              rayPos, lastCallAt, prevCallAt, lastCallVector, lastCallPartial,
              lastCallAfterTeardown, burst, scene, obstacles, sensOp>>

vars == <<carVars, sensVars>>

-----------------------------------------------------------------------------
(* Car.tsx: constants                                                      *)

maxSteerVal == 5

maxForce == 1000

maxBrakeForce == 100000

Commands == {"forward", "backward", "left", "right", "brake", "reset"}

\* The keys each command is bound to (Car.tsx:116-121).
Target(cmd) ==
    CASE cmd = "forward"  -> {"w", "ArrowUp"}
      [] cmd = "backward" -> {"s", "ArrowDown"}
      [] cmd = "left"     -> {"a", "ArrowLeft"}
      [] cmd = "right"    -> {"d", "ArrowRight"}
      [] cmd = "brake"    -> {" "}
      [] cmd = "reset"    -> {"r"}

\* Keys the window may deliver: every bound key and one unbound key.
Keys == UNION {Target(c) : c \in Commands} \cup {"x"}

\* Wheel slots (Car.tsx:104): 0,1 front, 2,3 rear.
WheelIndices == {0, 1, 2, 3}

InitialPose == [position |-> <<0, 0, 0>>, velocity |-> <<0, 0, 0>>,
                angularVelocity |-> <<0, 0, 0>>, rotation |-> <<0, 0, 0>>]

MovedPose == [position |-> <<1000, 0, 2000>>, velocity |-> <<0, 0, 3000>>,
              angularVelocity |-> <<0, 0, 0>>, rotation |-> <<0, 100, 0>>]

\* Car.tsx:157-163
ResetPose == [position |-> <<0, 5000, 0>>, velocity |-> <<0, 0, 0>>,
              angularVelocity |-> <<0, 500, 0>>, rotation |-> <<0, -785, 0>>]

Last(s) == s[Len(s)]

-----------------------------------------------------------------------------
(* Car.tsx: the frame callback (useFrame, lines 131-165)                   *)

\* Mutant: the branches test `left` and `right` alone.
SteeringWrites_NoExclusion(left, right) ==
    IF left THEN <<maxSteerVal>>
    ELSE IF right THEN <<-maxSteerVal>>
    ELSE <<0>>

\* Lines 135-141: the values passed to setSteeringValue, in order.
SteeringWrites(left, right) ==
    IF left /\ ~right THEN <<maxSteerVal>>
    ELSE IF right /\ ~left THEN <<-maxSteerVal>>
    ELSE <<0>>

\* Mutant: the signs of the two drive branches are swapped.
EngineWrites_SwappedSign(forward, backward, engine) ==
    IF forward /\ ~backward THEN <<maxForce>>
    ELSE IF backward /\ ~forward THEN <<-maxForce>>
    ELSE IF engine # 0 THEN <<0>>
    ELSE <<>>

\* Mutant: the second branch tests `backward && forward`.
EngineWrites_BothHeld(forward, backward, engine) ==
    IF forward /\ ~backward THEN <<-maxForce>>
    ELSE IF backward /\ forward THEN <<maxForce>>
    ELSE IF engine # 0 THEN <<0>>
    ELSE <<>>

\* Mutant: the last branch tests `engineForce === 0`.
EngineWrites_InvertedTest(forward, backward, engine) ==
    IF forward /\ ~backward THEN <<-maxForce>>
    ELSE IF backward /\ ~forward THEN <<maxForce>>
    ELSE IF engine = 0 THEN <<0>>
    ELSE <<>>

\* Lines 142-150: the values passed to setEngineForce, in order.  `engine`
\* is the engineForce of the render the callback closes over.
EngineWrites(forward, backward, engine) ==
    IF forward /\ ~backward THEN <<-maxForce>>
    ELSE IF backward /\ ~forward THEN <<maxForce>>
    ELSE IF engine # 0 THEN <<0>>
    ELSE <<>>

\* Mutant: the brake statements come before the drive branches.
BrakeWrites_DriveLast(forward, backward, brake) ==
    (IF brake THEN <<maxBrakeForce>> ELSE <<>>)
    \o (IF ~brake THEN <<0>> ELSE <<>>)
    \o (IF (forward /\ ~backward) \/ (backward /\ ~forward) THEN <<0>> ELSE <<>>)

\* Lines 142-154: the values passed to setBrakeForce, in order.
BrakeWrites(forward, backward, brake) ==
    (IF (forward /\ ~backward) \/ (backward /\ ~forward) THEN <<0>> ELSE <<>>)
    \o (IF brake THEN <<maxBrakeForce>> ELSE <<>>)
    \o (IF ~brake THEN <<0>> ELSE <<>>)

\* The value a field holds once the writes of one callback are committed.
Committed(old, ws) == IF ws = <<>> THEN old ELSE Last(ws)

\* Mutant: an effect without a dependency list runs after every commit.
EffectDue_NoDeps(mounting, dep, value) == TRUE

\* useEffect(..., [value]) (lines 170, 175, 181): the effect runs on mount
\* and after a commit whose value differs from the one of its last run.
EffectDue(mounting, dep, value) == mounting \/ dep # value

\* Mutant: the engine force is applied to every wheel.
EffectPushes_AllWheelDrive(mounting, deps, engine, steering, brake) ==
    (IF EffectDue(mounting, deps.engine, engine)
        THEN {<<"applyEngineForce", engine, i>> : i \in WheelIndices} ELSE {})
    \cup
    (IF EffectDue(mounting, deps.steering, steering)
        THEN {<<"setSteeringValue", steering, i>> : i \in {0, 1}} ELSE {})
    \cup
    (IF EffectDue(mounting, deps.brake, brake)
        THEN {<<"setBrake", brake, i>> : i \in WheelIndices} ELSE {})

\* Lines 167-181: the api calls of the effects that run after a commit.
EffectPushes(mounting, deps, engine, steering, brake) ==
    (IF EffectDue(mounting, deps.engine, engine)
        THEN {<<"applyEngineForce", engine, i>> : i \in {2, 3}} ELSE {})
    \cup
    (IF EffectDue(mounting, deps.steering, steering)
        THEN {<<"setSteeringValue", steering, i>> : i \in {0, 1}} ELSE {})
    \cup
    (IF EffectDue(mounting, deps.brake, brake)
        THEN {<<"setBrake", brake, i>> : i \in WheelIndices} ELSE {})

NoWrites == [steering |-> 0, engine |-> 0, brake |-> 0]

-----------------------------------------------------------------------------
(* Car.tsx: useKeyPress (lines 236-264)                                    *)

\* Mutant: the effect registers the listeners whatever `controllable` is.
ListenersRegistered_Always(ctl) == TRUE

\* Lines 251-256: the effect returns early unless controllable.
ListenersRegistered(ctl) == ctl

\* Mutant: a flag stays set while another key bound to its command is down.
AfterKey_AnyHeld(pressed, key, down) ==
    [c \in Commands |->
        IF key \in Target(c)
        THEN down \/ (Target(c) \ {key}) \cap heldKeys # {}
        ELSE pressed[c]]

\* Lines 239-249: downHandler sets and upHandler clears the flag of the hook
\* whose targetKeys hold the key; the other hooks' flags stay.
AfterKey(pressed, key, down) ==
    [c \in Commands |-> IF key \in Target(c) THEN down ELSE pressed[c]]

\* Lines 251-261: the effect has an empty dependency list, so it runs once,
\* after the first render, and its closure holds that render's handlers.
EffectRender == "first"

\* Lines 255-256: the handlers the effect adds to the window.
HandlersAdded(ctl) == IF ListenersRegistered(ctl) THEN {EffectRender} ELSE {}

\* Mutant: the cleanup removes the handlers of the current render.
CleanupRemoves_Current(ctl, current) ==
    IF ListenersRegistered(ctl) THEN {current} ELSE {}

\* Lines 252, 257-260: the cleanup, returned only past the early return,
\* removes the handlers its closure holds, whatever the current render is.
CleanupRemoves(ctl, current) ==
    IF ListenersRegistered(ctl) THEN {EffectRender} ELSE {}

\* A commit that changed state re-rendered Car: new closures, new handlers.
Rerendered(gen, changed) == IF changed THEN "later" ELSE gen

-----------------------------------------------------------------------------
(* Car: initial state and operations                                       *)

\* The state after the first render of Car: hooks initialised, no effect
\* has run, no ref is attached.
CarInit ==
    /\ controllable \in BOOLEAN
    /\ carPhase = "rendered"
    /\ keyPressed = [c \in Commands |-> FALSE]
    /\ listening = FALSE
    /\ steeringValue = 0
    /\ engineForce = 0
    /\ brakeForce = 0
    /\ effectDeps = [engine |-> 0, steering |-> 0, brake |-> 0]
    /\ chassisBound = FALSE
    /\ chassisPose = InitialPose
    /\ pushes = {}
    /\ writes = NoWrites
    /\ tickResult = "none"
    /\ lastOp = "render"
    /\ renderGen = "first"
    /\ registered = {}
    /\ heldKeys = {}

\* The first commit: the mount effects run (lines 167-181, 251-261) and the
\* frame callback is subscribed (line 131).
MountCar ==
    /\ carPhase = "rendered"
    /\ carPhase' = "mounted"
    /\ listening' = ListenersRegistered(controllable)
    /\ pushes' = EffectPushes(TRUE, effectDeps, engineForce, steeringValue, brakeForce)
    /\ effectDeps' = [engine |-> engineForce, steering |-> steeringValue,
                      brake |-> brakeForce]
    /\ writes' = NoWrites
    /\ tickResult' = "none"
    /\ lastOp' = "mount"
    /\ registered' = HandlersAdded(controllable)
    /\ UNCHANGED <<controllable, keyPressed, steeringValue, engineForce,
                   brakeForce, chassisBound, chassisPose, renderGen, heldKeys>>
    /\ UNCHANGED sensVars

\* The Chassis child attaches its object to the forwarded ref (line 190).
BindChassis ==
    /\ carPhase # "unmounted"
    /\ ~chassisBound
    /\ chassisBound' = TRUE
    /\ pushes' = {}
    /\ writes' = NoWrites
    /\ tickResult' = "none"
    /\ lastOp' = "bind"
    /\ UNCHANGED <<controllable, carPhase, keyPressed, listening, steeringValue,
                   engineForce, brakeForce, effectDeps, chassisPose, renderGen,
                   registered, heldKeys>>
    /\ UNCHANGED sensVars

\* A keydown (down = TRUE) or keyup event on the window.  With listeners
\* registered each hook updates its state and Car re-renders; the push
\* effects see unchanged dependencies.
KeyHandled(key, down) ==
    /\ carPhase # "rendered"
    /\ keyPressed' = IF listening THEN AfterKey(keyPressed, key, down)
                                  ELSE keyPressed
    /\ pushes' = IF listening
                    THEN EffectPushes(FALSE, effectDeps, engineForce,
                                      steeringValue, brakeForce)
                    ELSE {}
    /\ writes' = NoWrites
    /\ tickResult' = "none"
    /\ lastOp' = IF down THEN "keydown" ELSE "keyup"
    /\ renderGen' = Rerendered(renderGen, keyPressed' # keyPressed)
    /\ UNCHANGED <<controllable, carPhase, listening, steeringValue,
                   engineForce, brakeForce, effectDeps, chassisBound,
                   chassisPose, registered>>
    /\ UNCHANGED sensVars

\* A key event delivered to the window, the keyboard itself left out.
KeyEvent(key, down) ==
    /\ KeyHandled(key, down)
    /\ UNCHANGED heldKeys

\* A key event as a keyboard produces it: a key goes down when it is up and
\* up when it is down.
KeyStroke(key, down) ==
    /\ down <=> key \notin heldKeys
    /\ heldKeys' = IF down THEN heldKeys \cup {key} ELSE heldKeys \ {key}
    /\ KeyHandled(key, down)

\* One frame: the callback of lines 131-165, the commit of its state
\* updates and the effects of that commit (lines 167-181).
Tick ==
    /\ carPhase = "mounted"
    /\ lastOp' = "tick"
    /\ IF ~controllable
       THEN \* lines 132-134
            /\ pushes' = {}
            /\ writes' = NoWrites
            /\ tickResult' = "ok"
            /\ UNCHANGED <<steeringValue, engineForce, brakeForce, effectDeps,
                           chassisPose, renderGen>>
       ELSE LET sw == SteeringWrites(keyPressed["left"], keyPressed["right"])
                ew == EngineWrites(keyPressed["forward"], keyPressed["backward"],
                                   engineForce)
                bw == BrakeWrites(keyPressed["forward"], keyPressed["backward"],
                                  keyPressed["brake"])
                s == Committed(steeringValue, sw)
                e == Committed(engineForce, ew)
                b == Committed(brakeForce, bw)
            IN  /\ steeringValue' = s
                /\ engineForce' = e
                /\ brakeForce' = b
                /\ writes' = [steering |-> Len(sw), engine |-> Len(ew),
                              brake |-> Len(bw)]
                /\ pushes' = EffectPushes(FALSE, effectDeps, e, s, b)
                /\ effectDeps' = [engine |-> e, steering |-> s, brake |-> b]
                /\ renderGen' = Rerendered(renderGen, <<s, e, b>> #
                                    <<steeringValue, engineForce, brakeForce>>)
                \* lines 155-164: chassis.current.api is dereferenced unguarded
                /\ IF keyPressed["reset"]
                   THEN IF chassisBound
                        THEN chassisPose' = ResetPose /\ tickResult' = "ok"
                        ELSE chassisPose' = chassisPose /\ tickResult' = "threw"
                   ELSE chassisPose' = chassisPose /\ tickResult' = "ok"
    /\ UNCHANGED <<controllable, carPhase, keyPressed, listening, chassisBound,
                   registered, heldKeys>>
    /\ UNCHANGED sensVars

\* The physics collaborator moves the chassis between frames.
PhysicsStep ==
    /\ carPhase = "mounted"
    /\ chassisBound
    /\ chassisPose # MovedPose
    /\ chassisPose' = MovedPose
    /\ pushes' = {}
    /\ writes' = NoWrites
    /\ tickResult' = "none"
    /\ lastOp' = "physics"
    /\ UNCHANGED <<controllable, carPhase, keyPressed, listening, steeringValue,
                   engineForce, brakeForce, effectDeps, chassisBound, renderGen,
                   registered, heldKeys>>
    /\ UNCHANGED sensVars

\* Teardown: the effect cleanups run (lines 257-260), the frame callback is
\* unsubscribed and the ref is detached.
UnmountCar ==
    /\ carPhase = "mounted"
    /\ carPhase' = "unmounted"
    /\ registered' = registered \ CleanupRemoves(controllable, renderGen)
    /\ listening' = (registered' # {})
    /\ chassisBound' = FALSE
    /\ pushes' = {}
    /\ writes' = NoWrites
    /\ tickResult' = "none"
    /\ lastOp' = "unmount"
    /\ UNCHANGED <<controllable, keyPressed, steeringValue, engineForce,
                   brakeForce, effectDeps, chassisPose, renderGen,
                   heldKeys>>
    /\ UNCHANGED sensVars

CarNext ==
    \/ MountCar
    \/ BindChassis
    \/ \E key \in Keys, down \in BOOLEAN : KeyEvent(key, down)
    \/ Tick
    \/ PhysicsStep
    \/ UnmountCar

-----------------------------------------------------------------------------
(* Sensors.tsx: constants and bounds                                       *)

\* Largest sensorsNum tried.
MaxSensors == 2

\* Largest distance a ray reports.
MaxDistance == 1

\* ON_SENSORS_THROTTLE_TIMEOUT (Sensors.tsx:9, 27) in clock units.
ThrottleTimeout == 2

\* The clock stops advancing here.
MaxTime == 4

\* Re-renders of Sensors after the first render.
MaxRenders == 1

\* Top-level objects the scene can hold.
MaxObjects == 2

\* Encoding of `undefined` (Sensors.tsx:20) and `null` (Sensors.tsx:35) in
\* the sensor vector; distances are 1..MaxDistance.
Undefined == -2

Null == -1

\* "no timer" / "never" in the throttle state and the call log.
None == -1

\* What a ray passes to onRay: a distance, or Undefined when nothing is hit.
RayInputs == (1 .. MaxDistance) \cup {Undefined}

\* Sensors.tsx:28-29
Leading == TRUE

Trailing == TRUE

-----------------------------------------------------------------------------
(* Sensors.tsx:27-30: lodash throttle(func, wait, {leading, trailing}),    *)
(* which is debounce(func, wait, {leading, maxWait: wait, trailing}).      *)
(* A throttle state is [timer, lastArgs, lastCallTime, lastInvokeTime].    *)

\* The state of a throttled function right after throttle() returns.
NewThrottle == [timer |-> None, lastArgs |-> FALSE, lastCallTime |-> None,
                lastInvokeTime |-> 0]

\* debounce.shouldInvoke
ShouldInvoke(t, time) ==
    \/ t.lastCallTime = None
    \/ time - t.lastCallTime >= ThrottleTimeout
    \/ time - t.lastCallTime < 0
    \/ time - t.lastInvokeTime >= ThrottleTimeout

Min(a, b) == IF a <= b THEN a ELSE b

\* debounce.remainingWait
RemainingWait(t, time) ==
    Min(ThrottleTimeout - (time - t.lastCallTime),
        ThrottleTimeout - (time - t.lastInvokeTime))

\* debounce.invokeFunc: the state after func has been called.
InvokeFunc(t, time) == [t EXCEPT !.lastArgs = FALSE, !.lastInvokeTime = time]

\* debounce.debounced: one call of the throttled function at `time`.
\* Returns the new state and whether func (onSensorsCallback) was called.
Debounced(t, time) ==
    LET isInvoking == ShouldInvoke(t, time)
        t1 == [t EXCEPT !.lastArgs = TRUE, !.lastCallTime = time]
    IN  IF isInvoking /\ t1.timer = None
        THEN \* leadingEdge
             LET t2 == [t1 EXCEPT !.lastInvokeTime = time,
                                  !.timer = time + ThrottleTimeout]
             IN  IF Leading THEN [t |-> InvokeFunc(t2, time), invoked |-> TRUE]
                            ELSE [t |-> t2, invoked |-> FALSE]
        ELSE IF isInvoking
        THEN \* maxing: timer restarted, func invoked
             [t |-> InvokeFunc([t1 EXCEPT !.timer = time + ThrottleTimeout], time),
              invoked |-> TRUE]
        ELSE IF t1.timer = None
        THEN [t |-> [t1 EXCEPT !.timer = time + ThrottleTimeout],
              invoked |-> FALSE]
        ELSE [t |-> t1, invoked |-> FALSE]

\* debounce.timerExpired, with trailingEdge.
TimerExpired(t, time) ==
    IF ShouldInvoke(t, time)
    THEN LET t1 == [t EXCEPT !.timer = None]
         IN  IF Trailing /\ t1.lastArgs
             THEN [t |-> InvokeFunc(t1, time), invoked |-> TRUE]
             ELSE [t |-> [t1 EXCEPT !.lastArgs = FALSE], invoked |-> FALSE]
    ELSE [t |-> [t EXCEPT !.timer = time + RemainingWait(t, time)],
          invoked |-> FALSE]

-----------------------------------------------------------------------------
(* Sensors: initial state and operations                                   *)

Instances == 1 .. (MaxRenders + 1)

Idle(ts) == \A k \in Instances : ts[k].timer = None

NoBurst == [open |-> FALSE, start |-> None, reqs |-> 0, calls |-> 0,
            leading |-> FALSE, inWindow |-> TRUE, vector |-> <<>>]

\* Counters of the burst bookkeeping stop here.
Cap(n) == Min(n, 3)

\* The burst bookkeeping after a publish request at `time`.
BurstAfterRequest(b, wasIdle, time, invoked, vector) ==
    IF wasIdle
    THEN [open |-> TRUE, start |-> time, reqs |-> 1,
          calls |-> IF invoked THEN 1 ELSE 0, leading |-> invoked,
          inWindow |-> TRUE, vector |-> vector]
    ELSE [b EXCEPT !.reqs = Cap(@ + 1),
                   !.calls = Cap(@ + IF invoked THEN 1 ELSE 0),
                   !.inWindow = @ /\ time < b.start + ThrottleTimeout,
                   !.vector = vector]

\* A top-level object of the scene: its type and what getObjectByName finds
\* under it for the chassis name.
Objects == 1 .. MaxObjects

Absent == [type |-> "absent", chassis |-> "none"]

Nodes == [type : {"Group", "Mesh"}, chassis : {"none", "untagged", "tagged"}]

TaggedGroup == [type |-> "Group", chassis |-> "tagged"]

\* Lines 39-50: the groups among scene.children, mapped to their chassis
\* object, of which those with userData.isSensorObstacle are kept.  An
\* obstacle is named by the top-level object it was found under.
SceneObstacles(sc) ==
    LET children == {o \in Objects : sc[o].type # "absent"}
        groups   == {o \in children : sc[o].type = "Group"}
        chassis  == {o \in groups : sc[o].chassis # "none"}
    IN  {o \in chassis : sc[o].chassis = "tagged"}

\* The values of the `sensorsNum` prop: it is a number with no check on it.
SensorsNumValues == (0 - 1) .. MaxSensors

\* Line 20: `new Array(sensorsNum)` throws a RangeError for a negative
\* length and returns an empty array for 0; nothing else looks at the value.
ConstructionResult(n) == IF n < 0 THEN "RangeError" ELSE "ok"

\* Lines 53-66: `new Array(sensorsNum).fill(null).map(...)` builds one ray
\* per index (1-based here).
SensorRays(n) == 1 .. n

\* The state after the first render of Sensors (lines 18-66).  A render
\* that threw mounts nothing.
SensInit ==
    /\ sensorsNum \in SensorsNumValues
    /\ construction = ConstructionResult(sensorsNum)
    /\ sensMounted = (construction = "ok")
    /\ sensorDistances = [i \in SensorRays(sensorsNum) |-> Undefined]
    /\ scene \in [Objects -> Nodes \cup {Absent}]
    /\ obstacles = SceneObstacles(scene)
    /\ throttles = [k \in Instances |-> NewThrottle]
    /\ cur = 1
    /\ now = 0
    /\ rayPos = 0
    /\ lastCallAt = None
    /\ prevCallAt = None
    /\ lastCallVector = <<>>
    /\ lastCallPartial = FALSE
    /\ lastCallAfterTeardown = FALSE
    /\ burst = NoBurst
    /\ sensOp = "render"

\* onSensorsCallback (lines 23-25) has run: the consumer got `vector`.
Delivered(invoked, vector, partial) ==
    IF invoked
    THEN /\ prevCallAt' = lastCallAt
         /\ lastCallAt' = now
         /\ lastCallVector' = vector
         /\ lastCallPartial' = partial
         /\ lastCallAfterTeardown' = ~sensMounted
    ELSE UNCHANGED <<prevCallAt, lastCallAt, lastCallVector, lastCallPartial,
                     lastCallAfterTeardown>>

\* The SensorRay children call onRay once per frame each, in index order,
\* one after the other: ray i (1-based) is the next to report.
RayReports(i) == i = rayPos + 1

\* A ray measures a distance only if it was handed an obstacle to hit.
RayMeasures(distance) == distance # Undefined => obstacles # {}

\* onRay (lines 32-37), called by ray i of the pass in progress with the
\* distance it measured.
OnRay(i, distance) ==
    /\ sensMounted
    /\ i \in SensorRays(sensorsNum)
    /\ RayReports(i)
    /\ RayMeasures(distance)
    /\ LET vector == [sensorDistances EXCEPT
                        ![i] = IF distance # Undefined THEN distance ELSE Null]
           r == Debounced(throttles[cur], now)
       IN  /\ sensorDistances' = vector
           /\ throttles' = [throttles EXCEPT ![cur] = r.t]
           /\ Delivered(r.invoked, vector, i < sensorsNum)
           /\ burst' = BurstAfterRequest(burst, Idle(throttles), now, r.invoked,
                                         vector)
    /\ rayPos' = IF i = sensorsNum THEN 0 ELSE i
    /\ sensOp' = "onRay"
    /\ UNCHANGED <<construction, sensorsNum, scene, obstacles,
                   sensMounted, cur, now>>
    /\ UNCHANGED carVars

\* The timer of the throttled function created by render k fires.  Timers
\* run between frames and are never cancelled.
TimerFires(k) ==
    /\ rayPos = 0
    /\ throttles[k].timer # None
    /\ throttles[k].timer <= now
    /\ LET r == TimerExpired(throttles[k], now)
           \* a throttled function no render refers to and with no timer
           \* left is unreachable
           t == IF k # cur /\ r.t.timer = None THEN NewThrottle ELSE r.t
           ts == [throttles EXCEPT ![k] = t]
       IN  /\ throttles' = ts
           /\ Delivered(r.invoked, sensorDistances, FALSE)
           /\ burst' = [burst EXCEPT
                           !.calls = Cap(@ + IF r.invoked THEN 1 ELSE 0),
                           !.open = ~Idle(ts)]
    /\ sensOp' = "timer"
    /\ UNCHANGED <<construction, sensorsNum, scene, obstacles,
                   sensMounted, sensorDistances, cur, now, rayPos>>
    /\ UNCHANGED carVars

\* The clock advances; a due timer fires before it does.
Advance ==
    /\ rayPos = 0
    /\ now < MaxTime
    /\ \A k \in Instances : throttles[k].timer = None \/ throttles[k].timer > now
    /\ now' = now + 1
    /\ sensOp' = "advance"
    /\ UNCHANGED <<construction, sensorsNum, scene, obstacles,
                   sensMounted, sensorDistances, throttles, cur,
                   rayPos, lastCallAt, prevCallAt, lastCallVector,
                   lastCallPartial, lastCallAfterTeardown, burst>>
    /\ UNCHANGED carVars

\* Sensors re-renders: the body runs again and line 27 creates a new
\* throttled function, which the new onRay (line 32) calls from now on.
RenderSensors ==
    /\ sensMounted
    /\ rayPos = 0
    /\ cur <= MaxRenders
    /\ cur' = cur + 1
    /\ throttles' = [throttles EXCEPT
                        ![cur] = IF @.timer = None THEN NewThrottle ELSE @]
    /\ obstacles' = SceneObstacles(scene)
    /\ sensOp' = "render"
    /\ UNCHANGED <<construction, sensorsNum, scene,
                   sensMounted, sensorDistances, now, rayPos,
                   lastCallAt, prevCallAt, lastCallVector, lastCallPartial,
                   lastCallAfterTeardown, burst>>
    /\ UNCHANGED carVars

\* Sensors unmounts: the rays stop reporting.  The component registers no
\* cleanup.
UnmountSensors ==
    /\ sensMounted
    /\ rayPos = 0
    /\ sensMounted' = FALSE
    /\ sensOp' = "unmount"
    /\ UNCHANGED <<construction, sensorsNum, scene, obstacles,
                   sensorDistances, throttles, cur, now, rayPos,
                   lastCallAt, prevCallAt, lastCallVector, lastCallPartial,
                   lastCallAfterTeardown, burst>>
    /\ UNCHANGED carVars

\* An object is added to the scene, removed from it, or changed (its type,
\* its chassis child or the tag on it), between two frames.  Nothing tells
\* Sensors.
SceneChange(o, node) ==
    /\ rayPos = 0
    /\ scene[o] # node
    /\ scene' = [scene EXCEPT ![o] = node]
    /\ sensOp' = "scene"
    /\ UNCHANGED <<construction, sensorsNum, sensMounted, sensorDistances,
                   throttles, cur, now, rayPos, lastCallAt, prevCallAt,
                   lastCallVector, lastCallPartial, lastCallAfterTeardown,
                   burst, obstacles>>
    /\ UNCHANGED carVars

SensNext ==
    \/ \E i \in 1 .. MaxSensors, d \in RayInputs : OnRay(i, d)
    \/ \E k \in Instances : TimerFires(k)
    \/ Advance
    \/ RenderSensors
    \/ UnmountSensors

-----------------------------------------------------------------------------
(* Specifications                                                          *)

Init == CarInit /\ SensInit

Next ==
    \/ CarNext
    \/ SensNext
    \/ \E key \in Keys, down \in BOOLEAN : KeyStroke(key, down)
    \/ \E o \in Objects, node \in Nodes \cup {Absent} : SceneChange(o, node)

\* Both components.
Spec == Init /\ [][Next]_vars

\* The Car component alone, beside a Sensors that does nothing.
\* A scene in which every object is an obstacle.
TaggedScene == [o \in Objects |-> TaggedGroup]

CarOnlyInit == Init /\ sensorsNum = MaxSensors /\ scene = TaggedScene

CarSpec == CarOnlyInit /\ [][CarNext]_vars

\* Car's key handling with the keyboard tracked: which keys are down.
KeysNext ==
    \/ MountCar
    \/ \E key \in Keys, down \in BOOLEAN : KeyStroke(key, down)
    \/ UnmountCar

KeysSpec == CarOnlyInit /\ [][KeysNext]_vars

\* The Sensors component alone, beside a Car that does nothing.
SensorsOnlyInit == Init /\ ~controllable /\ scene = TaggedScene

SensorsSpec == SensorsOnlyInit /\ [][SensNext]_vars

\* Sensors in a scene that changes, with the clock left out.
ObstaclesOnlyInit == Init /\ ~controllable

ObstaclesNext ==
    \/ \E o \in Objects, node \in Nodes \cup {Absent} : SceneChange(o, node)
    \/ RenderSensors
    \/ \E i \in 1 .. MaxSensors, d \in RayInputs : OnRay(i, d)
    \/ UnmountSensors

ObstaclesSpec == ObstaclesOnlyInit /\ [][ObstaclesNext]_vars

-----------------------------------------------------------------------------
(* Claims about Sensors (checked under SensorsSpec)                        *)

\* C1: every onSensors call comes after all sensorsNum rays of the sampling
\* pass in progress have written their value: the consumer never receives a
\* vector that only some rays of the pass have updated.
C1_PublishAfterAllRays ==
    lastCallAt # None => ~lastCallPartial

\* C2: any two consecutive onSensors calls are at least ThrottleTimeout
\* apart, whatever the publish requests, re-renders and timer firings.
C2_AtMostOncePerWindow ==
    (lastCallAt # None /\ prevCallAt # None)
        => lastCallAt - prevCallAt >= ThrottleTimeout

\* C3: a burst of two or more publish requests that starts from idle and
\* falls inside one throttle window has produced, once the throttle is idle
\* again, exactly two onSensors calls: a leading one at the first request
\* and a trailing one carrying the vector as of the last request.
C3_BurstGivesLeadingAndTrailing ==
    (~burst.open /\ burst.reqs >= 2 /\ burst.inWindow)
        => /\ burst.calls = 2
           /\ burst.leading
           /\ lastCallVector = burst.vector

\* C4: no onSensors call happens after the Sensors component is unmounted.
C4_NoCallAfterTeardown ==
    ~lastCallAfterTeardown

\* C5: every vector passed to onSensors has length sensorsNum and holds only
\* numbers and nulls, never undefined.
C5_VectorCompleteAndTyped ==
    lastCallAt # None
        => /\ Len(lastCallVector) = sensorsNum
           /\ \A i \in 1 .. Len(lastCallVector) :
                  lastCallVector[i] = Null \/ lastCallVector[i] \in 1 .. MaxDistance

-----------------------------------------------------------------------------
(* Claims about Car (checked under CarSpec)                                *)

ExactlyOneOf(a, b) == (a /\ ~b) \/ (b /\ ~a)

Called(ps, fn) == \E p \in ps : p[1] = fn

ZeroPushes ==
    {<<"applyEngineForce", 0, i>> : i \in {2, 3}}
    \cup {<<"setSteeringValue", 0, i>> : i \in {0, 1}}
    \cup {<<"setBrake", 0, i>> : i \in WheelIndices}

\* C6 (as claimed): engineForce goes from a nonzero value to 0 only on a
\* tick on which neither forward nor backward is held.
C6_ClearedOnlyWhenNeitherHeld ==
    [][(engineForce # 0 /\ engineForce' = 0)
          => /\ lastOp' = "tick"
             /\ ~keyPressed["forward"]
             /\ ~keyPressed["backward"]]_vars

\* C6 (amended): engineForce goes from a nonzero value to 0 only on a tick
\* on which forward and backward are not exactly one held (neither is held,
\* or both are held together); no tick with exactly one of them held clears
\* a nonzero engineForce.
C6_ClearedOnlyWhenNotExactlyOneHeld ==
    [][(engineForce # 0 /\ engineForce' = 0)
          => /\ lastOp' = "tick"
             /\ ~ExactlyOneOf(keyPressed["forward"], keyPressed["backward"])]_vars

\* C6 witness: a tick has just cleared engineForce with both keys held.
C6_Witness ==
    /\ lastOp = "tick"
    /\ writes.engine = 1
    /\ engineForce = 0
    /\ keyPressed["forward"]
    /\ keyPressed["backward"]

\* C7: the key event that neutralizes forward/backward leaves engineForce as
\* it is (only ticks change it); the next tick clears a nonzero engineForce,
\* and it decides on the value committed before that tick: with neutral
\* inputs a tick writes engineForce (once, with 0) exactly when the
\* committed value is nonzero.
C7_ClearedByNextTick ==
    [][/\ engineForce' # engineForce => lastOp' = "tick"
       /\ (/\ lastOp' = "tick"
           /\ controllable
           /\ ~ExactlyOneOf(keyPressed["forward"], keyPressed["backward"]))
          => IF engineForce # 0
                THEN engineForce' = 0 /\ writes'.engine = 1
                ELSE engineForce' = 0 /\ writes'.engine = 0]_vars

\* C7 witness: forward and backward are both released and a tick has just
\* cleared the engineForce an earlier tick had set.
C7_Witness ==
    /\ lastOp = "tick"
    /\ writes.engine = 1
    /\ engineForce = 0
    /\ ~keyPressed["forward"]
    /\ ~keyPressed["backward"]

\* What C8 says apart from the api calls: a vehicle that is not controllable
\* has no listeners, all flags false, all actuation values 0, no setter
\* call and no pose reset.
PassiveState ==
    /\ ~listening
    /\ \A c \in Commands : ~keyPressed[c]
    /\ steeringValue = 0 /\ engineForce = 0 /\ brakeForce = 0
    /\ writes = NoWrites
    /\ chassisPose # ResetPose
    /\ tickResult # "threw"

\* C8 (as claimed): with controllable = false nothing is mutated and no
\* actuation call is ever made on the physics collaborator.
C8_FullyPassive ==
    ~controllable => (PassiveState /\ pushes = {})

\* C8 (amended): with controllable = false nothing is mutated, and the only
\* actuation calls are those of the push effects at mount, with the initial
\* value 0; no key event and no tick makes any.
C8_PassiveAfterMount ==
    ~controllable
        => /\ PassiveState
           /\ pushes = IF lastOp = "mount" THEN ZeroPushes ELSE {}

\* C8 witness: a key-down has been sent to a mounted vehicle that is not
\* controllable.
C8_Witness ==
    /\ ~controllable
    /\ carPhase = "mounted"
    /\ chassisBound
    /\ lastOp = "keydown"

\* C9 (as claimed): each api function is called only by a tick that changed
\* its value.
C9_PushOnlyOnChange ==
    [][/\ Called(pushes', "applyEngineForce")
            => (lastOp' = "tick" /\ engineForce' # engineForce)
       /\ Called(pushes', "setSteeringValue")
            => (lastOp' = "tick" /\ steeringValue' # steeringValue)
       /\ Called(pushes', "setBrake")
            => (lastOp' = "tick" /\ brakeForce' # brakeForce)]_vars

\* C9 (amended): each api function is called once at mount with the initial
\* value, and after that exactly by the ticks that changed its value, with
\* the new value; no other tick, key event or render calls it.
C9_PushOnMountOrChange ==
    [][/\ Called(pushes', "applyEngineForce")
            <=> (lastOp' = "mount" \/ engineForce' # engineForce)
       /\ Called(pushes', "setSteeringValue")
            <=> (lastOp' = "mount" \/ steeringValue' # steeringValue)
       /\ Called(pushes', "setBrake")
            <=> (lastOp' = "mount" \/ brakeForce' # brakeForce)
       /\ (\/ engineForce' # engineForce
           \/ steeringValue' # steeringValue
           \/ brakeForce' # brakeForce) => lastOp' = "tick"
       /\ \A p \in pushes' :
              p[2] = CASE p[1] = "applyEngineForce" -> engineForce'
                       [] p[1] = "setSteeringValue" -> steeringValue'
                       [] p[1] = "setBrake" -> brakeForce']_vars

\* C9 witness: a tick changed engineForce only, and only applyEngineForce
\* was called.
C9_Witness ==
    /\ lastOp = "tick"
    /\ pushes = {<<"applyEngineForce", -maxForce, i>> : i \in {2, 3}}

\* C10: a tick with reset held before the chassis handle is bound completes
\* without an error.
C10_EarlyResetAbsorbed ==
    tickResult # "threw"

-----------------------------------------------------------------------------
(* Further claims about Car (checked under CarSpec)                        *)

\* C12: after a tick of a controllable vehicle steeringValue is +maxSteerVal
\* with left and not right held, -maxSteerVal with right and not left held,
\* and 0 otherwise, whatever it was before and whatever the other flags are.
C12_SteeringFollowsLeftRight ==
    (lastOp = "tick" /\ controllable)
        => steeringValue =
              IF keyPressed["left"] /\ ~keyPressed["right"] THEN maxSteerVal
              ELSE IF keyPressed["right"] /\ ~keyPressed["left"] THEN -maxSteerVal
              ELSE 0

\* C12 witness: a tick with left and right both held brought a nonzero
\* steeringValue back to 0.
C12_Witness ==
    /\ lastOp = "tick"
    /\ controllable
    /\ keyPressed["left"] /\ keyPressed["right"]
    /\ steeringValue = 0
    /\ Called(pushes, "setSteeringValue")

\* C13: a tick of a controllable vehicle leaves engineForce at -maxForce
\* with forward and not backward held, at +maxForce with backward and not
\* forward held; otherwise it sets it to 0 if and only if it was nonzero.
\* engineForce is always one of -maxForce, 0, +maxForce.
C13_EngineFollowsDrive ==
    [][/\ engineForce \in {-maxForce, 0, maxForce}
       /\ engineForce' \in {-maxForce, 0, maxForce}
       /\ (lastOp' = "tick" /\ controllable)
          => LET f == keyPressed["forward"]
                 b == keyPressed["backward"]
             IN  /\ (f /\ ~b) => (engineForce' = -maxForce /\ writes'.engine = 1)
                 /\ (b /\ ~f) => (engineForce' = maxForce /\ writes'.engine = 1)
                 /\ ~ExactlyOneOf(f, b)
                       => /\ engineForce' = 0
                          /\ writes'.engine = (IF engineForce # 0 THEN 1 ELSE 0)]_vars

\* C13 witness: a tick with backward only held has set +maxForce.
C13_Witness ==
    /\ lastOp = "tick"
    /\ keyPressed["backward"] /\ ~keyPressed["forward"]
    /\ engineForce = maxForce

\* C14: after every tick of a controllable vehicle brakeForce is
\* maxBrakeForce if brake is held and 0 otherwise, whatever the other flags
\* and the previous brakeForce are.
C14_BrakeFollowsBrakeKey ==
    (lastOp = "tick" /\ controllable)
        => brakeForce = IF keyPressed["brake"] THEN maxBrakeForce ELSE 0

\* C14 witness: a tick with forward and brake held has left brakeForce at
\* maxBrakeForce.
C14_Witness ==
    /\ lastOp = "tick"
    /\ keyPressed["forward"] /\ ~keyPressed["backward"]
    /\ keyPressed["brake"]
    /\ brakeForce = maxBrakeForce

\* C15: a tick with reset held sets the chassis pose to the reset pose
\* whatever the state before, and leaves the actuation fields at what the
\* same inputs produce without reset.
C15_ResetSetsPose ==
    (lastOp = "tick" /\ controllable /\ keyPressed["reset"])
        => /\ chassisPose = ResetPose
           /\ steeringValue =
                 Last(SteeringWrites(keyPressed["left"], keyPressed["right"]))
           /\ brakeForce =
                 Last(BrakeWrites(keyPressed["forward"], keyPressed["backward"],
                                  keyPressed["brake"]))
           /\ ExactlyOneOf(keyPressed["forward"], keyPressed["backward"])
                 <=> engineForce # 0

\* C18: whenever an api function is called, applyEngineForce is called for
\* exactly the wheels 2 and 3, setSteeringValue for exactly 0 and 1, setBrake
\* for exactly 0..3, each with the current value of its field.
C18_PushesGoToTheirWheels ==
    /\ Called(pushes, "applyEngineForce")
          => {p \in pushes : p[1] = "applyEngineForce"}
                = {<<"applyEngineForce", engineForce, i>> : i \in {2, 3}}
    /\ Called(pushes, "setSteeringValue")
          => {p \in pushes : p[1] = "setSteeringValue"}
                = {<<"setSteeringValue", steeringValue, i>> : i \in {0, 1}}
    /\ Called(pushes, "setBrake")
          => {p \in pushes : p[1] = "setBrake"}
                = {<<"setBrake", brakeForce, i>> : i \in {0, 1, 2, 3}}

\* C18 witness: one tick has pushed all three values, none of them 0.
C18_Witness ==
    /\ lastOp = "tick"
    /\ engineForce # 0 /\ steeringValue # 0 /\ brakeForce # 0
    /\ Called(pushes, "applyEngineForce")
    /\ Called(pushes, "setSteeringValue")
    /\ Called(pushes, "setBrake")

\* C19: within one tick each actuation field is written at most once.
C19_OneWritePerField ==
    /\ writes.steering <= 1
    /\ writes.engine <= 1
    /\ writes.brake <= 1

\* C16: the key handlers are added to the window once, by the effect of the
\* first render, and never again however often Car re-renders; once Car is
\* unmounted no handler is left on the window and no key event changes a
\* command flag.
C16_ListenersBoundOnceAndReleased ==
    [][ /\ registered' \subseteq {EffectRender}
        /\ carPhase' = "unmounted" => registered' = {} /\ ~listening'
        /\ (carPhase = "mounted" /\ carPhase' = "unmounted") =>
               CleanupRemoves(controllable, renderGen) = registered
        /\ carPhase = "unmounted" => keyPressed' = keyPressed ]_vars

\* A controllable car that re-rendered, was unmounted, and then got a key
\* press on a bound key.
C16_Witness ==
    /\ carPhase = "unmounted"
    /\ controllable
    /\ renderGen = "later"
    /\ lastOp = "keydown"
    /\ \A c \in Commands : ~keyPressed[c]

\* C20: a command's flag is shared by its bound keys: a key-down of any of
\* them sets it, a key-up of any of them clears it, whatever the other bound
\* keys are doing, and no other flag changes; so releasing one of two held
\* keys of a command clears the flag while the other is still down.
C20_FlagFollowsLatestEvent ==
    [][ (listening /\ heldKeys' # heldKeys) =>
          LET key  == CHOOSE k \in Keys : (k \in heldKeys') # (k \in heldKeys)
              down == key \in heldKeys'
          IN  \A c \in Commands :
                  keyPressed'[c] = IF key \in Target(c) THEN down
                                                         ELSE keyPressed[c] ]_vars

\* "w" was released while "ArrowUp" is still down: forward is off.
C20_Witness ==
    /\ listening
    /\ lastOp = "keyup"
    /\ "ArrowUp" \in heldKeys
    /\ "w" \notin heldKeys
    /\ ~keyPressed["forward"]
    /\ \A c \in Commands \ {"forward"} : ~keyPressed[c]

-----------------------------------------------------------------------------
(* Further claims about Sensors (checked under SensorsSpec)                *)

\* C11: a sensor ring constructed with sensorsNum <= 0 (zero or negative)
\* fails with an InvalidConfiguration error before any ray is built; it is
\* never mounted with an empty ring.
C11_NonPositiveRejected ==
    sensorsNum <= 0 =>
        /\ construction = "InvalidConfiguration"
        /\ ~sensMounted

\* C17: the obstacle set the rays use is rebuilt from the scene on every
\* tick: whenever a ray has just reported, the set is exactly the tagged
\* chassis objects of the group-type top-level objects of the scene as it
\* is now, so an object removed or untagged since the last tick is not in it.
C17_ObstaclesFresh ==
    sensOp = "onRay" => obstacles = SceneObstacles(scene)

=============================================================================
